---- MODULE Spec2Model ----
(***************************************************************************)
(* A model of the two command-line tools of latexdiff-tools:               *)
(*   latexdiffcite.py    (DiffCleaner)                                     *)
(*   tex_concatenator.py (ProjectFlattener)                                *)
(*                                                                         *)
(* Text is a sequence of tokens.  Each token stands for one fixed string,  *)
(* and the strings are chosen so that every text has exactly one reading   *)
(* as a token sequence:                                                    *)
(*    "S"   a space              "N"   a newline         "c"   the letter x *)
(*    "DAB" \DIFaddbegin         "DAE" \DIFaddend                          *)
(*    "DDB" \DIFdelbegin         "DDE" \DIFdelend                          *)
(*    "DAO" \DIFadd{             "DDO" \DIFdel{                            *)
(*    "BEG" \begin               "bgn" begin             "END" \end        *)
(*    "TB"  {thebibliography}    "LB"  {                 "RB"  }           *)
(*    "d1"  the digit 1          "d2"  the digit 2                         *)
(* The regular expressions of the source are translated to scanners over   *)
(* these tokens that match exactly where the expression matches the text.  *)
(***************************************************************************)
EXTENDS Integers, Sequences, FiniteSets, TLC

VARIABLES
    text,        \* SpecClean: the text clean_difcommands is applied to
    passes,      \* SpecClean: how often it has been applied
    original,    \* SpecClean: the text before the first application
    pc,          \* DiffCleaner: position in main / process_files
    argc,        \* DiffCleaner: len(sys.argv)
    run,         \* DiffCleaner: what subprocess.run does
    raw,         \* DiffCleaner: result.stdout of latexdiff
    new_file,    \* DiffCleaner: the new document on disk, or EIO
    diff_text,   \* DiffCleaner: process_files' diff_text
    stdout,      \* DiffCleaner: the chunks written to sys.stdout
    stderr,      \* DiffCleaner: the chunks written to sys.stderr
    exit_code,   \* DiffCleaner: "running", or the process's exit status
    fs,                    \* Flattener: the .tex files on disk, path -> content
    project_bibs,          \* Flattener: the other files of project_dir
    output_files,          \* Flattener: the files of output_dir
    figures_dir,           \* Flattener: the files of output_dir/figures
    flatten_bibliography,  \* Flattener: self.flatten_bibliography
    fix_reference_numbers, \* Flattener: self.fix_reference_numbers
    bbl,                   \* Flattener: what generate_bbl_content returns
    phase,                 \* Flattener: position in concatenate
    stack,                 \* Flattener: the active calls of process_file
    lookups,               \* Flattener: the paths exists() was asked about
    printed,               \* Flattener: the lines printed to standard output
    main_content,          \* Flattener: concatenate's main_content
    output_file,           \* Flattener: the text written to <output_name>.tex
    cwd,                   \* generate_bbl_content: the process's working directory
    called_from,           \* generate_bbl_content: the working directory at the call
    original_dir,          \* generate_bbl_content: its local original_dir
    temp_dir,              \* generate_bbl_content: whether the temporary directory exists
    bbl_file,              \* generate_bbl_content: the .bbl the compilation leaves
    gen_pc,                \* generate_bbl_content: position in the function
    pending,               \* generate_bbl_content: the return or raise under way
    warned                 \* generate_bbl_content: the warnings printed

cleanVars == <<text, passes, original>>
diffVars == <<pc, argc, run, raw, new_file, diff_text, stdout, stderr, exit_code>>
flatVars ==
    <<fs, project_bibs, output_files, figures_dir, flatten_bibliography,
      fix_reference_numbers, bbl, phase, stack, lookups, printed, main_content,
      output_file>>
bblVars == <<cwd, called_from, original_dir, temp_dir, bbl_file, gen_pc, pending, warned>>
vars == <<cleanVars, diffVars, flatVars, bblVars>>

(***************************************************************************)
(* Bounds                                                                  *)
(***************************************************************************)
MaxLen == 5        \* longest text SpecClean starts from
MaxRaw == 3        \* longest free-form raw diff text of SpecDiff
MaxLines == 2      \* most lines of a generated root document of SpecFlat
MaxCites == 2      \* most \cite commands of a generated root document
MaxDepth == 3      \* deepest nesting of process_file calls that is followed

(***************************************************************************)
(* Character classes                                                       *)
(***************************************************************************)
\* \s of the regular expressions
IsSpace(t) == t \in {"S", "N"}
\* \d
IsDigit(t) == t \in {"d1", "d2"}
\* a token whose first character is {
OpensBrace(t) == t \in {"LB", "TB"}
\* a token that contains } (always as its last character)
ClosesBrace(t) == t \in {"RB", "TB"}

At(s, i, t) == i <= Len(s) /\ s[i] = t

\* the end of the run \s* that starts at i: the first index >= i that holds
\* no whitespace (Len(s)+1 when the run reaches the end)
RECURSIVE SkipSpace(_, _)
SkipSpace(s, i) ==
    IF i <= Len(s) /\ IsSpace(s[i]) THEN SkipSpace(s, i + 1) ELSE i

\* [^}]* followed by }: the index of the first token at or after i that
\* contains } (Len(s)+1 when there is none)
RECURSIVE FirstClose(_, _)
FirstClose(s, i) ==
    IF i <= Len(s) /\ ~ClosesBrace(s[i]) THEN FirstClose(s, i + 1) ELSE i

From(s, i) == SubSeq(s, i, Len(s))

(***************************************************************************)
(* clean_difcommands, one substitution at a time                           *)
(***************************************************************************)
\* re.sub(r'\\DIFdelend\s*\\DIFaddbegin\s*\\?begin{thebibliography}',
\*        r'\\begin{thebibliography}', text)
RECURSIVE SubBibMarkup(_, _)
SubBibMarkup(s, i) ==
    IF i > Len(s) THEN <<>>
    ELSE LET j == SkipSpace(s, i + 1)
             k == SkipSpace(s, j + 1)
         IN  IF /\ s[i] = "DDE"
                /\ At(s, j, "DAB")
                /\ (At(s, k, "BEG") \/ At(s, k, "bgn"))
                /\ At(s, k + 1, "TB")
             THEN <<"BEG", "TB">> \o SubBibMarkup(s, k + 2)
             ELSE <<s[i]>> \o SubBibMarkup(s, i + 1)

\* re.sub(r'\\DIFaddbegin\s*\n*', r'\\DIFaddbegin ', text), and the same
\* for \DIFdelbegin
RECURSIVE SubOpenMarker(_, _, _)
SubOpenMarker(s, i, m) ==
    IF i > Len(s) THEN <<>>
    ELSE IF s[i] = m
         THEN <<m, "S">> \o SubOpenMarker(s, SkipSpace(s, i + 1), m)
         ELSE <<s[i]>> \o SubOpenMarker(s, i + 1, m)

\* re.sub(r'\s*\\DIFaddend\s*\n*', r' \\DIFaddend ', text), and the same
\* for \DIFdelend
RECURSIVE SubCloseMarker(_, _, _)
SubCloseMarker(s, i, m) ==
    IF i > Len(s) THEN <<>>
    ELSE LET j == SkipSpace(s, i)
         IN  IF At(s, j, m)
             THEN <<"S", m, "S">> \o SubCloseMarker(s, SkipSpace(s, j + 1), m)
             ELSE <<s[i]>> \o SubCloseMarker(s, i + 1, m)

\* re.sub(r'(\\DIFadd{[^}]*})\s*\n\s*', r'\1 ', text), and the same for
\* \DIFdel{ : the span, then a whitespace run that holds a newline
RECURSIVE SubJoinSpan(_, _, _)
SubJoinSpan(s, i, o) ==
    IF i > Len(s) THEN <<>>
    ELSE LET c == FirstClose(s, i + 1)
             e == SkipSpace(s, c + 1)
         IN  IF /\ s[i] = o
                /\ c <= Len(s)
                /\ \E n \in (c + 1)..(e - 1) : s[n] = "N"
             THEN SubSeq(s, i, c) \o <<"S">> \o SubJoinSpan(s, e, o)
             ELSE <<s[i]>> \o SubJoinSpan(s, i + 1, o)

\* the scanner a build without line 38 would run: whitespace is kept
CollapseSpaceSkipped(s, i) == From(s, i)

\* re.sub(r'\s+', ' ', text)
RECURSIVE CollapseSpace(_, _)
CollapseSpace(s, i) ==
    IF i > Len(s) THEN <<>>
    ELSE IF IsSpace(s[i])
         THEN <<"S">> \o CollapseSpace(s, SkipSpace(s, i))
         ELSE <<s[i]>> \o CollapseSpace(s, i + 1)

\* re.sub(r'\\begin\s+{', r'\\begin{', text), and the same for \end
RECURSIVE SubKeywordBrace(_, _, _)
SubKeywordBrace(s, i, kw) ==
    IF i > Len(s) THEN <<>>
    ELSE LET j == SkipSpace(s, i + 1)
         IN  IF s[i] = kw /\ j > i + 1 /\ j <= Len(s) /\ OpensBrace(s[j])
             THEN <<kw, s[j]>> \o SubKeywordBrace(s, j + 1, kw)
             ELSE <<s[i]>> \o SubKeywordBrace(s, i + 1, kw)

clean_difcommands(t) ==
    LET t1  == SubBibMarkup(t, 1)
        t2  == SubOpenMarker(t1, 1, "DAB")
        t3  == SubCloseMarker(t2, 1, "DAE")
        t4  == SubOpenMarker(t3, 1, "DDB")
        t5  == SubCloseMarker(t4, 1, "DDE")
        t6  == SubJoinSpan(t5, 1, "DAO")
        t7  == SubJoinSpan(t6, 1, "DDO")
        t8  == CollapseSpace(t7, 1)
        t9  == SubKeywordBrace(t8, 1, "BEG")
        t10 == SubKeywordBrace(t9, 1, "END")
    IN  t10

(***************************************************************************)
(* Texts of bounded length over an alphabet                                *)
(***************************************************************************)
SeqsUpTo(A, n) == UNION {[1..k -> A] : k \in 0..n}

CleanAlphabet == {"S", "N", "c", "DDE", "DAB", "DAE", "BEG", "TB"}

(***************************************************************************)
(* SpecClean: clean_difcommands applied once, and once more                *)
(***************************************************************************)
Unused == "unused"

\* the variables of a tool that a specification does not run
CleanIdle == text = Unused /\ passes = Unused /\ original = Unused
DiffIdle ==
    /\ pc = Unused /\ argc = Unused /\ run = Unused /\ raw = Unused
    /\ new_file = Unused /\ diff_text = Unused
    /\ stdout = Unused /\ stderr = Unused /\ exit_code = Unused

BblIdle ==
    /\ cwd = Unused /\ called_from = Unused /\ original_dir = Unused
    /\ temp_dir = Unused /\ bbl_file = Unused /\ gen_pc = Unused
    /\ pending = Unused /\ warned = Unused

FlatIdle ==
    /\ fs = Unused /\ project_bibs = Unused /\ output_files = Unused
    /\ figures_dir = Unused /\ flatten_bibliography = Unused
    /\ fix_reference_numbers = Unused /\ bbl = Unused /\ phase = Unused
    /\ stack = Unused /\ lookups = Unused /\ printed = Unused
    /\ main_content = Unused /\ output_file = Unused

InitClean ==
    /\ FlatIdle
    /\ BblIdle
    /\ text \in SeqsUpTo(CleanAlphabet, MaxLen)
    /\ original = text
    /\ passes = 0
    /\ DiffIdle

Clean ==
    /\ passes = 0
    /\ text' = clean_difcommands(text)
    /\ passes' = 1
    /\ UNCHANGED <<original, diffVars, flatVars, bblVars>>

CleanAgain ==
    /\ passes = 1
    /\ text' = clean_difcommands(text)
    /\ passes' = 2
    /\ UNCHANGED <<original, diffVars, flatVars, bblVars>>

NextClean == Clean \/ CleanAgain

SpecClean == InitClean /\ [][NextClean]_vars

\* C1: markup cleanup is idempotent: applying clean_difcommands to its own
\* result changes nothing, whatever the text was.
C1_CleanupIdempotent == [][passes = 1 => text' = text]_vars

(***************************************************************************)
(* extract_bibliography and fix_bibliography_enumeration                   *)
(***************************************************************************)
\* the first index >= i where token a is directly followed by token b
\* (0 when there is none)
RECURSIVE FindPair(_, _, _, _)
FindPair(s, i, a, b) ==
    IF i + 1 > Len(s) THEN 0
    ELSE IF s[i] = a /\ s[i + 1] = b THEN i ELSE FindPair(s, i + 1, a, b)

\* re.search(r'\\begin{thebibliography}.*?\\end{thebibliography}', text,
\*           re.DOTALL): the match, or '' when there is none
extract_bibliography(t) ==
    LET p == FindPair(t, 1, "BEG", "TB")
        q == IF p = 0 THEN 0 ELSE FindPair(t, p + 2, "END", "TB")
    IN  IF p = 0 \/ q = 0 THEN <<>> ELSE SubSeq(t, p, q + 1)

\* the end of the run \d* that starts at i
RECURSIVE SkipDigits(_, _)
SkipDigits(s, i) ==
    IF i <= Len(s) /\ IsDigit(s[i]) THEN SkipDigits(s, i + 1) ELSE i

\* r'\\begin{thebibliography}{(\d+)}' matches at i
HeaderAt(s, i) ==
    LET e == SkipDigits(s, i + 3)
    IN  /\ At(s, i, "BEG") /\ At(s, i + 1, "TB") /\ At(s, i + 2, "LB")
        /\ e > i + 3
        /\ At(s, e, "RB")

\* group(1) of the match at i
HeaderCount(s, i) == SubSeq(s, i + 3, SkipDigits(s, i + 3) - 1)

\* re.search(r'\\begin{thebibliography}{(\d+)}', s): where the first match
\* starts (0 for None)
SearchHeader(s) ==
    IF \E i \in 1..Len(s) : HeaderAt(s, i)
    THEN CHOOSE i \in 1..Len(s) :
            HeaderAt(s, i) /\ \A j \in 1..(i - 1) : ~HeaderAt(s, j)
    ELSE 0

\* re.sub(r'\\begin{thebibliography}{(\d+)}',
\*        rf'\\begin{{thebibliography}}{{{final_num}}}', bib_text)
RECURSIVE SubHeader(_, _, _)
SubHeader(s, i, final_num) ==
    IF i > Len(s) THEN <<>>
    ELSE IF HeaderAt(s, i)
         THEN <<"BEG", "TB", "LB">> \o final_num \o <<"RB">>
                  \o SubHeader(s, SkipDigits(s, i + 3) + 1, final_num)
         ELSE <<s[i]>> \o SubHeader(s, i + 1, final_num)

\* re.search(...) is None for final_bib_text, so .group(1) raises
\* AttributeError
FixRaises(final_bib_text) == SearchHeader(final_bib_text) = 0

fix_bibliography_enumeration(bib_text, final_bib_text) ==
    LET final_num == HeaderCount(final_bib_text, SearchHeader(final_bib_text))
    IN  SubHeader(bib_text, 1, final_num)

\* s.replace(old, new) for a non-empty old: every occurrence, left to right
RECURSIVE Replace(_, _, _, _)
Replace(s, i, old, new) ==
    IF i > Len(s) THEN <<>>
    ELSE IF i + Len(old) - 1 <= Len(s) /\ SubSeq(s, i, i + Len(old) - 1) = old
         THEN new \o Replace(s, i + Len(old), old, new)
         ELSE <<s[i]>> \o Replace(s, i + 1, old, new)

(***************************************************************************)
(* SpecDiff: one run of latexdiffcite.py, main and process_files           *)
(***************************************************************************)
RawAlphabet == {"c", "S", "N", "DAB", "DAE"}

\* what the diff tool may print as the {count} of the bibliography header:
\* a plain count, a count wrapped in diff markup, a count after a space
DiffHeaders ==
    { <<"LB", "d1", "RB">>,
      <<"LB", "d2", "d2", "RB">>,
      <<"LB", "DDO", "d1", "RB", "DAO", "d2", "RB", "RB">>,
      <<"LB", "DAO", "d1", "RB", "RB">> }

\* raw diff outputs that hold a thebibliography environment
BibDiffs ==
    { pre \o <<"BEG", "TB">> \o hdr \o body \o <<"END", "TB">> \o post :
        pre \in {<<>>, <<"c", "N">>, <<"DDE", "DAB">>},
        hdr \in DiffHeaders,
        body \in {<<"c">>, <<"N", "DAB", "c", "DAE", "N">>},
        post \in {<<>>, <<"N">>, <<"N", "N">>} }

RawDiffs == BibDiffs \cup SeqsUpTo(RawAlphabet, MaxRaw)

\* the new document cannot be opened or read
EIO == <<"EIO">>

\* the new document: unreadable, without a bibliography, with a bibliography
\* that declares a decimal count, and with one that declares none
NewDocs ==
    { EIO, <<"c", "N">>,
      <<"BEG", "TB", "LB", "c", "RB", "c", "END", "TB", "N">> }
    \cup { <<"c", "BEG", "TB", "LB">> \o n \o <<"RB", "N", "c", "END", "TB", "N">> :
              n \in {<<"d1">>, <<"d2">>, <<"d1", "d2">>} }

InitDiff ==
    /\ CleanIdle
    /\ FlatIdle
    /\ BblIdle
    /\ pc = "main"
    /\ argc \in {2, 3, 4}
    /\ run \in {"ok", "nonzero", "oserror"}
    /\ raw \in RawDiffs
    /\ new_file \in NewDocs
    /\ diff_text = <<>>
    /\ stdout = <<>>
    /\ stderr = <<>>
    /\ exit_code = "running"

\* sys.exit(1)
Exit(code) == pc' = "exit" /\ exit_code' = code

\* an exception no handler catches: the interpreter prints the traceback to
\* sys.stderr and the process ends with status 1
Uncaught ==
    /\ stderr' = Append(stderr, "Traceback")
    /\ Exit(1)

\* main, lines 90-92: the wrong number of arguments
Usage ==
    /\ pc = "main" /\ argc # 3
    /\ stdout' = Append(stdout, <<"Usage">>)
    /\ Exit(1)
    /\ UNCHANGED <<cleanVars, flatVars, bblVars, argc, run, raw, new_file, diff_text, stderr>>

\* main, lines 94-101: process_files is called
CallProcessFiles ==
    /\ pc = "main" /\ argc = 3
    /\ pc' = "latexdiff"
    /\ UNCHANGED <<cleanVars, flatVars, bblVars, argc, run, raw, new_file, diff_text, stdout, stderr, exit_code>>

\* a build whose handler prints without file=sys.stderr
LatexdiffFailsOnStdout ==
    /\ pc = "latexdiff" /\ run = "nonzero"
    /\ stdout' = Append(stdout, <<"Error running latexdiff">>)
    /\ Exit(1)
    /\ UNCHANGED <<cleanVars, flatVars, bblVars, argc, run, raw, new_file, diff_text, stderr>>

\* lines 54-57: check_returncode raises CalledProcessError
LatexdiffFails ==
    /\ pc = "latexdiff" /\ run = "nonzero"
    /\ stderr' = Append(stderr, "Error running latexdiff")
    /\ Exit(1)
    /\ UNCHANGED <<cleanVars, flatVars, bblVars, argc, run, raw, new_file, diff_text, stdout>>

\* lines 58-60: subprocess.run raises (the tool cannot be launched)
LaunchFails ==
    /\ pc = "latexdiff" /\ run = "oserror"
    /\ stderr' = Append(stderr, "Unexpected error")
    /\ Exit(1)
    /\ UNCHANGED <<cleanVars, flatVars, bblVars, argc, run, raw, new_file, diff_text, stdout>>

\* lines 50-62: the tool ran and exited with 0
LatexdiffOk ==
    /\ pc = "latexdiff" /\ run = "ok"
    /\ diff_text' = raw
    /\ pc' = "read"
    /\ UNCHANGED <<cleanVars, flatVars, bblVars, argc, run, raw, new_file, stdout, stderr, exit_code>>

\* lines 65-66: open or read raises OSError, which nothing catches
ReadFails ==
    /\ pc = "read" /\ new_file = EIO
    /\ Uncaught
    /\ UNCHANGED <<cleanVars, flatVars, bblVars, argc, run, raw, new_file, diff_text, stdout>>

\* lines 65-66
ReadOk ==
    /\ pc = "read" /\ new_file # EIO
    /\ pc' = "bib"
    /\ UNCHANGED <<cleanVars, flatVars, bblVars, argc, run, raw, new_file, diff_text, stdout, stderr, exit_code>>

\* lines 69-74: both bibliographies are found and the new one declares no
\* decimal count: fix_bibliography_enumeration raises AttributeError
RewriteRaises ==
    /\ pc = "bib"
    /\ extract_bibliography(diff_text) # <<>>
    /\ extract_bibliography(new_file) # <<>>
    /\ FixRaises(extract_bibliography(new_file))
    /\ Uncaught
    /\ UNCHANGED <<cleanVars, flatVars, bblVars, argc, run, raw, new_file, diff_text, stdout>>

\* lines 69-78
RewriteBibliography ==
    /\ pc = "bib"
    /\ LET diff_bib == extract_bibliography(diff_text)
           new_bib == extract_bibliography(new_file)
       IN  IF diff_bib # <<>> /\ new_bib # <<>>
           THEN /\ ~FixRaises(new_bib)
                /\ LET fixed_bib == clean_difcommands(
                             fix_bibliography_enumeration(diff_bib, new_bib))
                   IN  diff_text' = Replace(diff_text, 1, diff_bib, fixed_bib)
           ELSE diff_text' = diff_text
    /\ pc' = "cleanup"
    /\ UNCHANGED <<cleanVars, flatVars, bblVars, argc, run, raw, new_file, stdout, stderr, exit_code>>

\* lines 81-87: the final cleanup, the trailing newline, return
FinalCleanup ==
    /\ pc = "cleanup"
    /\ LET cleaned == clean_difcommands(diff_text)
       IN  diff_text' = IF cleaned # <<>> /\ cleaned[Len(cleaned)] = "N"
                        THEN cleaned
                        ELSE Append(cleaned, "N")
    /\ pc' = "write"
    /\ UNCHANGED <<cleanVars, flatVars, bblVars, argc, run, raw, new_file, stdout, stderr, exit_code>>

\* main, line 102, and the end of the script
WriteResult ==
    /\ pc = "write"
    /\ stdout' = Append(stdout, diff_text)
    /\ Exit(0)
    /\ UNCHANGED <<cleanVars, flatVars, bblVars, argc, run, raw, new_file, diff_text, stderr>>

NextDiff ==
    \/ Usage
    \/ CallProcessFiles
    \/ LatexdiffFails
    \/ LaunchFails
    \/ LatexdiffOk
    \/ ReadFails
    \/ ReadOk
    \/ RewriteRaises
    \/ RewriteBibliography
    \/ FinalCleanup
    \/ WriteResult

SpecDiff == InitDiff /\ [][NextDiff]_vars

\* t holds a thebibliography environment whose header declares the count n
DeclaresCount(t, n) ==
    \E i \in 1..Len(t) :
        /\ HeaderAt(t, i)
        /\ HeaderCount(t, i) = n
        /\ FindPair(t, i + 2, "END", "TB") # 0

\* the new document is readable and its bibliography declares a decimal count
NewDeclaresCount ==
    /\ new_file # EIO
    /\ extract_bibliography(new_file) # <<>>
    /\ ~FixRaises(extract_bibliography(new_file))

NewCount ==
    LET b == extract_bibliography(new_file) IN HeaderCount(b, SearchHeader(b))

\* C2: when the raw diff output holds a thebibliography environment and the
\* new document's environment declares the decimal count N, the text that
\* process_files returns holds a thebibliography environment declaring N,
\* whatever count, plain or wrapped in diff markup, the raw header carried.
C2_CountFollowsNewDocument ==
    (pc = "write" /\ extract_bibliography(raw) # <<>> /\ NewDeclaresCount)
        => DeclaresCount(diff_text, NewCount)

\* the run fails in one of the ways process_files can fail
FailingRun ==
    /\ argc = 3
    /\ \/ run # "ok"
       \/ new_file = EIO
       \/ /\ extract_bibliography(raw) # <<>>
          /\ extract_bibliography(new_file) # <<>>
          /\ FixRaises(extract_bibliography(new_file))

C4_OneTrailingNewline ==
    pc = "write" =>
        /\ Len(diff_text) >= 1
        /\ diff_text[Len(diff_text)] = "N"
        /\ Len(diff_text) >= 2 => diff_text[Len(diff_text) - 1] # "N"

\* process_files has returned for a raw diff that ended with two newlines
C4_RawEndedWithNewlines ==
    /\ pc = "write"
    /\ Len(raw) >= 2
    /\ raw[Len(raw)] = "N" /\ raw[Len(raw) - 1] = "N"
    /\ diff_text[Len(diff_text)] = "N"

(***************************************************************************)
(* ProjectFlattener (tex_concatenator.py)                                  *)
(*                                                                         *)
(* A document is a sequence of tokens [k |-> kind, a |-> arguments]:       *)
(*    "N" a newline, "S" a space, "c" the letter x, "%" the comment marker, *)
(*    an accented letter (a key of accent_map) or its escape sequence,     *)
(*    "input" / "include"  \input{f}, \include{f}:  a = <<f>>,             *)
(*    "bibliography"       \bibliography{n1,n2}:    a = <<n1, n2>>,        *)
(*    "cite"               \cite{k1,k2}:            a = <<k1, k2>>,        *)
(*    "begin_thebibliography", "bibitem", "end_thebibliography",           *)
(*    "bib_definitions"    the parts of a thebibliography environment.     *)
(* A file name, a path, a citation key and a formatted entry are sequences *)
(* of strings: name parts, "/", ".", and "S" for a space.                   *)
(***************************************************************************)
Ch(c) == [k |-> c, a |-> <<>>]
NL == Ch("N")
SP == Ch("S")
X == Ch("c")
PCT == Ch("%")
CR == Ch("CR")
Input(f) == [k |-> "input", a |-> <<f>>]
Include(f) == [k |-> "include", a |-> <<f>>]
Bibliography(names) == [k |-> "bibliography", a |-> names]
Cite(keys) == [k |-> "cite", a |-> keys]

\* transform_accents' accent_map, lines 26-45
accent_map ==
    [ a_acute |-> "{\\'a}", e_acute |-> "{\\'e}", i_acute |-> "{\\'i}",
      o_acute |-> "{\\'o}", u_acute |-> "{\\'u}",
      A_acute |-> "{\\'A}", E_acute |-> "{\\'E}", I_acute |-> "{\\'I}",
      O_acute |-> "{\\'O}", U_acute |-> "{\\'U}",
      n_tilde |-> "{\\~n}", N_tilde |-> "{\\~N}",
      u_uml |-> "{\\\"u}", U_uml |-> "{\\\"U}", o_uml |-> "{\\\"o}",
      O_uml |-> "{\\\"O}", a_uml |-> "{\\\"a}", A_uml |-> "{\\\"A}" ]

\* lines 46-48: every accented letter is replaced by its escape sequence
transform_accents(t) ==
    [i \in 1..Len(t) |->
        IF t[i].k \in DOMAIN accent_map THEN Ch(accent_map[t[i].k]) ELSE t[i]]

\* line 53: Path.read_text opens the file in text mode with universal
\* newlines: \r\n and a lone \r are read as \n
RECURSIVE read_text(_)
read_text(t) ==
    IF t = <<>> THEN <<>>
    ELSE IF t[1].k = "CR"
         THEN <<NL>> \o read_text(SubSeq(t, IF Len(t) > 1 /\ t[2].k = "N" THEN 3 ELSE 2,
                                         Len(t)))
         ELSE <<t[1]>> \o read_text(SubSeq(t, 2, Len(t)))

\* content.split('\n')
RECURSIVE SplitFrom(_, _, _)
SplitFrom(t, i, cur) ==
    IF i > Len(t) THEN <<cur>>
    ELSE IF t[i].k = "N"
         THEN <<cur>> \o SplitFrom(t, i + 1, <<>>)
         ELSE SplitFrom(t, i + 1, Append(cur, t[i]))

Split(t) == SplitFrom(t, 1, <<>>)

\* '\n'.join(lines)
RECURSIVE Join(_)
Join(lines) ==
    IF lines = <<>> THEN <<>>
    ELSE IF Len(lines) = 1 THEN lines[1]
         ELSE lines[1] \o <<NL>> \o Join(SubSeq(lines, 2, Len(lines)))

\* the number of whitespace tokens the line starts with
RECURSIVE LeadingSpace(_, _)
LeadingSpace(line, n) ==
    IF n < Len(line) /\ line[n + 1].k = "S" THEN LeadingSpace(line, n + 1) ELSE n

\* line.lstrip()
lstrip(line) == SubSeq(line, LeadingSpace(line, 0) + 1, Len(line))

\* line 80: line[:len(line) - len(line.lstrip())]
IndentOf(line) == SubSeq(line, 1, Len(line) - Len(lstrip(line)))

\* line 67: not line.strip()
IsBlankLine(line) == lstrip(line) = <<>>

\* a build that tests line.startswith('%') without lstrip
is_commented_unstripped(line) == line # <<>> /\ line[1].k = "%"

\* line 72: line.lstrip().startswith('%')
is_commented(line) == lstrip(line) # <<>> /\ lstrip(line)[1].k = "%"

\* line 78: re.search(r'\\(input|include)\{(.*?)\}', line): the index of the
\* first directive of the line (0 for None)
input_match(line) ==
    IF \E i \in 1..Len(line) : line[i].k \in {"input", "include"}
    THEN CHOOSE i \in 1..Len(line) :
            /\ line[i].k \in {"input", "include"}
            /\ \A j \in 1..(i - 1) : line[j].k \notin {"input", "include"}
    ELSE 0

(***************************************************************************)
(* pathlib                                                                 *)
(***************************************************************************)
\* the last index of s that holds x (0 when none does)
RECURSIVE LastIndexOf(_, _, _)
LastIndexOf(s, x, i) ==
    IF i = 0 THEN 0 ELSE IF s[i] = x THEN i ELSE LastIndexOf(s, x, i - 1)

\* PurePath.parent
Parent(p) ==
    LET i == LastIndexOf(p, "/", Len(p)) IN SubSeq(p, 1, i - 1)

\* PurePath.name
NameOf(p) ==
    LET i == LastIndexOf(p, "/", Len(p)) IN SubSeq(p, i + 1, Len(p))

\* dir / rel
JoinPath(dir, rel) == IF dir = <<>> THEN rel ELSE dir \o <<"/">> \o rel

\* PurePath.suffix: the part of the name from its last dot on, when that dot
\* is neither the first nor the last character of the name
SuffixOf(p) ==
    LET name == NameOf(p)
        i == LastIndexOf(name, ".", Len(name))
    IN  IF i > 1 /\ i < Len(name) THEN SubSeq(name, i, Len(name)) ELSE <<>>

\* PurePath.stem
StemOf(p) ==
    LET name == NameOf(p) IN SubSeq(name, 1, Len(name) - Len(SuffixOf(p)))

\* PurePath.with_suffix: the suffix the name has is replaced
with_suffix(p, suffix) == SubSeq(p, 1, Len(p) - Len(SuffixOf(p))) \o suffix

\* PurePath.with_stem
with_stem(p, stem) == JoinPath(Parent(p), stem \o SuffixOf(p))

DotTex == <<".", "tex">>
DotBib == <<".", "bib">>

\* line 82: (file_path.parent / include_file).with_suffix('.tex')
include_path(file_path, include_file) ==
    with_suffix(JoinPath(Parent(file_path), include_file), DotTex)

(***************************************************************************)
(* process_bibliography and reorder_bibliography                           *)
(***************************************************************************)
\* str.strip() of a key or a file name
RECURSIVE strip(_)
strip(x) ==
    IF x = <<>> THEN x
    ELSE IF x[1] = "S" THEN strip(SubSeq(x, 2, Len(x)))
    ELSE IF x[Len(x)] = "S" THEN strip(SubSeq(x, 1, Len(x) - 1))
    ELSE x

\* lines 231-236: the keys of every \cite{...}, split at the commas and
\* stripped, in document order
RECURSIVE CiteKeys(_, _)
CiteKeys(content, i) ==
    IF i > Len(content) THEN <<>>
    ELSE (IF content[i].k = "cite"
          THEN [j \in 1..Len(content[i].a) |-> strip(content[i].a[j])]
          ELSE <<>>) \o CiteKeys(content, i + 1)

\* a build without lines 239-240
DedupSkipped(s, seen) == s

\* lines 239-240: [x for x in citations if not (x in seen or seen.add(x))]
RECURSIVE Dedup(_, _)
Dedup(s, seen) ==
    IF s = <<>> THEN <<>>
    ELSE IF s[1] \in seen
         THEN Dedup(SubSeq(s, 2, Len(s)), seen)
         ELSE <<s[1]>> \o Dedup(SubSeq(s, 2, Len(s)), seen \cup {s[1]})

\* the parts of a thebibliography environment
BibDefinitions == Ch("bib_definitions")
BeginBib(arg) == [k |-> "begin_thebibliography", a |-> arg]
EndBib == Ch("end_thebibliography")
Bibitem(label, key, body) == [k |-> "bibitem", a |-> <<label, key, body>>]

\* lines 190-191: the \bibitem entries the pattern finds, in order
BibItems(bbl_content) == SelectSeq(bbl_content, LAMBDA t : t.k = "bibitem")

\* line 194: the keys of bibitem_dict in insertion order
DictKeys(items) == Dedup([i \in 1..Len(items) |-> items[i].a[2]], {})

\* line 194: bibitem_dict[key], the body of the last entry with that key
DictValue(items, key) ==
    LET i == CHOOSE i \in 1..Len(items) :
                /\ items[i].a[2] = key
                /\ \A j \in (i + 1)..Len(items) : items[j].a[2] # key
    IN  items[i].a[3]

\* line 197: re.search(r'\\begin\{thebibliography\}\{[^}]*\}', bbl_content):
\* the index of the header with its argument (0 for None)
begin_match(bbl_content) ==
    IF \E i \in 1..Len(bbl_content) :
          bbl_content[i].k = "begin_thebibliography" /\ bbl_content[i].a # <<>>
    THEN CHOOSE i \in 1..Len(bbl_content) :
            /\ bbl_content[i].k = "begin_thebibliography" /\ bbl_content[i].a # <<>>
            /\ \A j \in 1..(i - 1) :
                  ~(bbl_content[j].k = "begin_thebibliography" /\ bbl_content[j].a # <<>>)
    ELSE 0

\* lines 206-209: for i, cite_key in enumerate(citations, 1)
RECURSIVE NumberedItems(_, _, _)
NumberedItems(citations, i, items) ==
    IF i > Len(citations) THEN <<>>
    ELSE (IF \E n \in 1..Len(items) : items[n].a[2] = citations[i]
          THEN << <<Bibitem(<<ToString(i)>>, citations[i],
                           DictValue(items, citations[i]))>> >>
          ELSE <<>>) \o NumberedItems(citations, i + 1, items)

\* lines 212-213: for cite_key in bibitem_dict
OriginalItems(items) ==
    LET keys == DictKeys(items)
    IN  [n \in 1..Len(keys) |-> <<Bibitem(<<>>, keys[n], DictValue(items, keys[n]))>>]

\* lines 141-216; new_bbl is a list of lines
reorder_bibliography(bbl_content, citations) ==
    LET items == BibItems(bbl_content)
        b == begin_match(bbl_content)
        new_bbl ==
            << <<BibDefinitions, NL>>, <<bbl_content[b]>> >>
            \o (IF fix_reference_numbers /\ citations # <<>>
                THEN NumberedItems(citations, 1, items)
                ELSE OriginalItems(items))
            \o << <<EndBib>> >>
    IN  IF b = 0 THEN bbl_content ELSE Join(new_bbl)

\* the first index of content that holds a token of kind k (0 when none)
FirstOfKind(content, k) ==
    IF \E i \in 1..Len(content) : content[i].k = k
    THEN CHOOSE i \in 1..Len(content) :
            content[i].k = k /\ \A j \in 1..(i - 1) : content[j].k # k
    ELSE 0

IsWhite(t) == t.k \in {"S", "N"}

\* the start of the whitespace run that ends just before i
RECURSIVE SpaceBefore(_, _)
SpaceBefore(content, i) ==
    IF i > 1 /\ IsWhite(content[i - 1]) THEN SpaceBefore(content, i - 1) ELSE i

\* the end of the whitespace run that starts just after i
RECURSIVE SpaceAfter(_, _)
SpaceAfter(content, i) ==
    IF i < Len(content) /\ IsWhite(content[i + 1]) THEN SpaceAfter(content, i + 1) ELSE i

\* content.replace(old, new) for a non-empty old
RECURSIVE ReplaceText(_, _, _, _)
ReplaceText(content, i, old, new) ==
    IF i > Len(content) THEN <<>>
    ELSE IF /\ i + Len(old) - 1 <= Len(content)
            /\ \A n \in 1..Len(old) :
                  content[i + n - 1].k = old[n].k /\ content[i + n - 1].a = old[n].a
         THEN new \o ReplaceText(content, i + Len(old), old, new)
         ELSE <<content[i]>> \o ReplaceText(content, i + 1, old, new)

\* lines 230-240
citations_of(content) == Dedup(CiteKeys(content, 1), {})

\* lines 218-253: the returned content
process_bibliography(content) ==
    LET m == FirstOfKind(content, "bibliography")
        bbl_content == reorder_bibliography(bbl, citations_of(content))
        first == SpaceBefore(content, m)
        last == SpaceAfter(content, m)
        pre_space == SubSeq(content, first, m - 1)
        post_space == SubSeq(content, m + 1, last)
    IN  IF m = 0 \/ bbl = <<>> THEN content
        ELSE ReplaceText(content, 1, SubSeq(content, first, last),
                         pre_space \o bbl_content \o post_space)

Msg(m, arg) == [msg |-> m, arg |-> arg]

\* lines 225-228: what process_bibliography prints
process_bibliography_prints(content) ==
    IF FirstOfKind(content, "bibliography") # 0 /\ bbl = <<>>
    THEN <<Msg("Warning: Could not generate bibliography", <<>>)>>
    ELSE <<>>

(***************************************************************************)
(* copy_bibliography                                                       *)
(***************************************************************************)
\* lines 255-265: the first of target, stem_1, stem_2, ... that out lacks
get_unique_filename(target_path, out) ==
    IF target_path \notin out THEN target_path
    ELSE LET Numbered(c) ==
                 with_stem(target_path, StemOf(target_path) \o <<"_" \o ToString(c)>>)
             counter == CHOOSE c \in 1..(Cardinality(out) + 1) :
                           /\ Numbered(c) \notin out
                           /\ \A d \in 1..(c - 1) : Numbered(d) \in out
         IN  Numbered(counter)

\* lines 278-305 for the names of one \bibliography{...};
\* acc = [out, printed, renamed_files]
RECURSIVE CopyNames(_, _, _)
CopyNames(bib_files, j, acc) ==
    IF j > Len(bib_files) THEN acc
    ELSE LET bib_file == strip(bib_files[j])
             found == bib_file \in project_bibs \/ (bib_file \o DotBib) \in project_bibs
             bib_path == IF bib_file \in project_bibs THEN bib_file
                         ELSE bib_file \o DotBib
             target_name == IF SuffixOf(bib_path) = DotBib THEN NameOf(bib_path)
                            ELSE NameOf(bib_path) \o DotBib
             actual_target == get_unique_filename(target_name, acc.out)
             new_name == StemOf(actual_target)
         IN  CopyNames(bib_files, j + 1,
                 IF found
                 THEN [out |-> acc.out \cup {actual_target},
                       printed |-> Append(acc.printed,
                                     Msg("Copied bibliography file to", actual_target)),
                       renamed_files |-> Append(acc.renamed_files, new_name)]
                 ELSE [acc EXCEPT !.printed =
                          Append(@, Msg("Warning: Could not find bibliography file",
                                        bib_file))])

\* lines 273-311, for the matches of the original content from index i on;
\* acc = [content, out, printed]
RECURSIVE CopyMatches(_, _, _)
CopyMatches(orig, i, acc) ==
    IF i > Len(orig) THEN acc
    ELSE IF orig[i].k # "bibliography" THEN CopyMatches(orig, i + 1, acc)
    ELSE LET r == CopyNames(orig[i].a, 1,
                      [out |-> acc.out, printed |-> acc.printed, renamed_files |-> <<>>])
             new_bib == Bibliography(r.renamed_files)
         IN  CopyMatches(orig, i + 1,
                 [content |-> IF r.renamed_files # <<>>
                              THEN ReplaceText(acc.content, 1, <<orig[i]>>, <<new_bib>>)
                              ELSE acc.content,
                  out |-> r.out,
                  printed |-> r.printed])

\* lines 267-313: [content, out, printed] when copy_bibliography returns
copy_bibliography(content) ==
    CopyMatches(content, 1, [content |-> content, out |-> output_files, printed |-> printed])

(***************************************************************************)
(* SpecFlat: one run of TexConcatenator.concatenate                        *)
(***************************************************************************)
inputVars ==
    <<fs, project_bibs, flatten_bibliography, fix_reference_numbers, bbl>>

\* self.tex_file; project_dir is its parent
tex_file == <<"project", "/", "main", ".", "tex">>

\* lines 52-62 of a call process_file(file_path): the text is read,
\* transliterated and split; indent is what the caller prepends on return
Frame(file_path, indent) ==
    [file_path |-> file_path,
     lines |-> Split(transform_accents(read_text(fs[file_path]))),
     i |-> 1,
     processed_lines |-> <<>>,
     indent |-> indent]

Top == stack[Len(stack)]
Line == Top.lines[Top.i]
InLoop == phase = "process_file" /\ stack # <<>> /\ Top.i <= Len(Top.lines)

\* processed_lines.append / extend, and the loop moves on
Advance(frame, new_lines) ==
    [frame EXCEPT !.i = @ + 1, !.processed_lines = @ \o new_lines]

SetTop(frame) == [stack EXCEPT ![Len(stack)] = frame]

\* line 318: concatenate calls process_file(self.tex_file)
StartConcatenate ==
    /\ phase = "start"
    /\ phase' = "process_file"
    /\ stack' = <<Frame(tex_file, <<>>)>>
    /\ UNCHANGED <<cleanVars, diffVars, bblVars, inputVars, output_files, figures_dir,
                   lookups, printed, main_content, output_file>>

\* a build whose blank-line branch continues without appending
BlankLineDropped ==
    /\ InLoop /\ IsBlankLine(Line)
    /\ stack' = SetTop([Top EXCEPT !.i = @ + 1])
    /\ UNCHANGED <<cleanVars, diffVars, bblVars, inputVars, output_files, figures_dir,
                   phase, lookups, printed, main_content, output_file>>

\* lines 67-69
BlankLine ==
    /\ InLoop /\ IsBlankLine(Line)
    /\ stack' = SetTop(Advance(Top, <<Line>>))
    /\ UNCHANGED <<cleanVars, diffVars, bblVars, inputVars, output_files, figures_dir,
                   phase, lookups, printed, main_content, output_file>>

\* lines 72-75
CommentLine ==
    /\ InLoop /\ ~IsBlankLine(Line) /\ is_commented(Line)
    /\ stack' = SetTop(Advance(Top, <<Line>>))
    /\ UNCHANGED <<cleanVars, diffVars, bblVars, inputVars, output_files, figures_dir,
                   phase, lookups, printed, main_content, output_file>>

\* lines 78-84: the named file exists and process_file is called on it
IncludeFound ==
    /\ InLoop /\ ~IsBlankLine(Line) /\ ~is_commented(Line)
    /\ input_match(Line) # 0
    /\ LET include_file == Line[input_match(Line)].a[1]
           path == include_path(Top.file_path, include_file)
       IN  /\ path \in DOMAIN fs
           /\ Len(stack) < MaxDepth
           /\ lookups' = lookups \cup {path}
           /\ stack' = Append(stack, Frame(path, IndentOf(Line)))
    /\ UNCHANGED <<cleanVars, diffVars, bblVars, inputVars, output_files, figures_dir,
                   phase, printed, main_content, output_file>>

\* lines 78-83, 88-90: the named file does not exist
IncludeMissing ==
    /\ InLoop /\ ~IsBlankLine(Line) /\ ~is_commented(Line)
    /\ input_match(Line) # 0
    /\ LET include_file == Line[input_match(Line)].a[1]
           path == include_path(Top.file_path, include_file)
       IN  /\ path \notin DOMAIN fs
           /\ lookups' = lookups \cup {path}
           /\ printed' = Append(printed,
                             Msg("Warning: Could not find included file", path))
    /\ stack' = SetTop(Advance(Top, <<Line>>))
    /\ UNCHANGED <<cleanVars, diffVars, bblVars, inputVars, output_files, figures_dir,
                   phase, main_content, output_file>>

\* lines 78, 91-92
PlainLine ==
    /\ InLoop /\ ~IsBlankLine(Line) /\ ~is_commented(Line)
    /\ input_match(Line) = 0
    /\ stack' = SetTop(Advance(Top, <<Line>>))
    /\ UNCHANGED <<cleanVars, diffVars, bblVars, inputVars, output_files, figures_dir,
                   phase, lookups, printed, main_content, output_file>>

\* line 94 of the included call, lines 84-87 of its caller
ReturnIncluded ==
    /\ phase = "process_file" /\ Len(stack) > 1
    /\ Top.i > Len(Top.lines)
    /\ LET included_content == Join(Top.processed_lines)
           included_lines == Split(included_content)
           caller == stack[Len(stack) - 1]
       IN  stack' = Append(SubSeq(stack, 1, Len(stack) - 2),
                       Advance(caller,
                           [n \in 1..Len(included_lines) |->
                               Top.indent \o included_lines[n]]))
    /\ UNCHANGED <<cleanVars, diffVars, bblVars, inputVars, output_files, figures_dir,
                   phase, lookups, printed, main_content, output_file>>

\* line 94 of the outermost call, line 318
ReturnMain ==
    /\ phase = "process_file" /\ Len(stack) = 1
    /\ Top.i > Len(Top.lines)
    /\ main_content' = Join(Top.processed_lines)
    /\ stack' = <<>>
    /\ phase' = "bibliography"
    /\ UNCHANGED <<cleanVars, diffVars, bblVars, inputVars, output_files, figures_dir,
                   lookups, printed, output_file>>

\* lines 321-322
FlattenBibliography ==
    /\ phase = "bibliography" /\ flatten_bibliography
    /\ main_content' = process_bibliography(main_content)
    /\ printed' = printed \o process_bibliography_prints(main_content)
    /\ phase' = "write"
    /\ UNCHANGED <<cleanVars, diffVars, bblVars, inputVars, output_files, figures_dir,
                   stack, lookups, output_file>>

\* lines 323-324
CopyBibliography ==
    /\ phase = "bibliography" /\ ~flatten_bibliography
    /\ LET r == copy_bibliography(main_content)
       IN  /\ main_content' = r.content
           /\ output_files' = r.out
           /\ printed' = r.printed
    /\ phase' = "write"
    /\ UNCHANGED <<cleanVars, diffVars, bblVars, inputVars, figures_dir,
                   stack, lookups, output_file>>

\* the regular files of project_dir/figures
project_figures == {<<"fig1", ".", "pdf">>}

\* self.output_name + ".tex"
output_path == <<"project", ".", "tex">>

\* lines 327-333: copy_figures, write_text, print
WriteOutput ==
    /\ phase = "write"
    /\ figures_dir' = figures_dir \cup project_figures
    /\ output_file' = main_content
    /\ output_files' = output_files \cup {output_path}
    /\ printed' = Append(printed, Msg("Created concatenated file", output_path))
    /\ phase' = "done"
    /\ UNCHANGED <<cleanVars, diffVars, bblVars, inputVars, stack, lookups, main_content>>

NextFlat ==
    \/ StartConcatenate
    \/ BlankLine
    \/ CommentLine
    \/ IncludeFound
    \/ IncludeMissing
    \/ PlainLine
    \/ ReturnIncluded
    \/ ReturnMain
    \/ FlattenBibliography
    \/ CopyBibliography
    \/ WriteOutput

(***************************************************************************)
(* The projects SpecFlat starts from                                       *)
(***************************************************************************)
InProject(rel) == JoinPath(Parent(tex_file), rel)

intro == <<"sections", "/", "intro">>
dotted == <<"v1", ".", "2">>
foo == <<"foo">>
loop == <<"loop">>
chapter == <<"sections", "/", "ch">>
refs == <<"refs">>
lib == <<"lib">>
missing == <<"missing">>
k1 == <<"k1">>
k2 == <<"k2">>
k3 == <<"k3">>
k4 == <<"k4">>

\* the lines a generated root document is made of
LinePool ==
    { <<SP, SP, Input(intro)>>,
      <<Input(dotted)>>,
      <<SP, PCT, SP, Input(foo)>>,
      <<PCT, Include(intro), Ch("e_acute")>>,
      <<X, Ch("e_acute"), SP, Ch("N_tilde")>>,
      <<SP>>,
      <<X, SP, Include(foo), SP, PCT>>,
      <<SP, Input(loop)>>,
      <<Include(chapter)>>,
      <<Bibliography(<<refs, <<"S", "missing">>>>)>> }

\* the root documents of up to n lines, with and without a final newline
Documents(n) ==
    UNION { { Join(ls) \o e : ls \in [1..m -> LinePool], e \in {<<>>, <<NL>>} } :
            m \in 0..n }

\* root documents whose lines end with \r\n or \r
CarriageReturnDocuments ==
    { <<X, Ch("e_acute"), CR, NL, SP, PCT, CR, NL>>,
      <<X, CR, SP, Input(intro), CR, NL, X>> }

\* the included files on disk: intro.tex holds the one line xx, with or
\* without its line terminator; v1.2.tex exists, v1.tex may; loop.tex
\* includes itself; ch.tex includes intro.tex of its own directory
IncludedFiles(intro_body, with_v1) ==
    (InProject(intro \o DotTex) :> intro_body)
    @@ (InProject(dotted \o DotTex) :> <<X>>)
    @@ (InProject(loop \o DotTex) :> <<X, NL, SP, Input(loop)>>)
    @@ (InProject(chapter \o DotTex) :>
            <<PCT, SP, Input(foo), NL, SP, Include(<<"intro">>), NL>>)
    @@ (IF with_v1 THEN (InProject(<<"v1">> \o DotTex) :> <<X, X, X>>) ELSE <<>>)

FileSystems(main) ==
    { (tex_file :> main) @@ IncludedFiles(<<X, X>>, FALSE),
      (tex_file :> main) @@ IncludedFiles(<<X, X, NL>>, TRUE) }

\* what generate_bbl_content may return: nothing, a bibliography, one with a
\* repeated key, one whose header lacks its argument
Bbls ==
    { <<>>,
      <<BeginBib(<<<<"99">>>>), NL, Bibitem(<<>>, k1, <<"b1">>), NL,
        Bibitem(<<"x">>, k2, <<"b2">>), NL, Bibitem(<<>>, k3, <<"b3">>), NL, EndBib>>,
      <<BeginBib(<<<<"9">>>>), NL, Bibitem(<<>>, k2, <<"b2">>), NL,
        Bibitem(<<>>, k1, <<"b1">>), NL, Bibitem(<<>>, k2, <<"b4">>), NL, EndBib>>,
      <<BeginBib(<<>>), NL, Bibitem(<<>>, k1, <<"b1">>), NL, EndBib>> }

CitePool ==
    { <<Cite(<<k1>>), X>>,
      <<Cite(<<k2, <<"S", "k1">>>>), SP>>,
      <<Cite(<<k3>>), NL>>,
      <<Cite(<<k4, k2>>), X>> }

RECURSIVE Flatten(_)
Flatten(ss) == IF ss = <<>> THEN <<>> ELSE ss[1] \o Flatten(SubSeq(ss, 2, Len(ss)))

\* root documents with up to n \cite commands and a \bibliography command
CitingDocuments(n) ==
    UNION { { Flatten(cs) \o <<NL, SP, Bibliography(<<refs>>), NL>> :
                cs \in [1..m -> CitePool] } : m \in 0..n }

\* root documents for copy_bibliography
BibDocuments ==
    { <<X, NL, Bibliography(names), NL>> :
        names \in { <<refs>>, <<refs \o DotBib>>, <<missing>>,
                    <<refs, <<"S", "missing">>>>, <<missing, lib, refs>>,
                    <<refs, refs>> } }
    \cup { <<Bibliography(<<missing>>), NL, X, Bibliography(<<lib, missing>>)>> }

Started ==
    /\ phase = "start"
    /\ stack = <<>>
    /\ lookups = {}
    /\ printed = <<>>
    /\ main_content = <<>>
    /\ output_file = <<>>
    /\ figures_dir = {}

\* projects that exercise process_file
InitInline ==
    /\ \E main \in Documents(MaxLines) \cup CarriageReturnDocuments :
          fs \in FileSystems(main)
    /\ project_bibs = {refs \o DotBib}
    /\ output_files = {}
    /\ flatten_bibliography = FALSE
    /\ fix_reference_numbers = FALSE
    /\ bbl = <<>>

\* projects that exercise copy_bibliography
InitCopy ==
    /\ \E main \in BibDocuments : fs = (tex_file :> main)
    /\ project_bibs \in { {refs \o DotBib, lib \o DotBib}, {refs \o DotBib}, {refs} }
    /\ output_files \in { {}, {refs \o DotBib},
                           {refs \o DotBib, <<"refs", "_1", ".", "bib">>} }
    /\ flatten_bibliography = FALSE
    /\ fix_reference_numbers = FALSE
    /\ bbl = <<>>

\* projects that exercise process_bibliography
InitCite ==
    /\ \E main \in CitingDocuments(MaxCites) : fs = (tex_file :> main)
    /\ project_bibs = {refs \o DotBib}
    /\ output_files = {}
    /\ flatten_bibliography = TRUE
    /\ fix_reference_numbers \in BOOLEAN
    /\ bbl \in Bbls

InitFlat ==
    /\ CleanIdle
    /\ DiffIdle
    /\ BblIdle
    /\ Started
    /\ (InitInline \/ InitCopy \/ InitCite)

SpecFlat == InitFlat /\ [][NextFlat]_vars

(***************************************************************************)
(* Properties of the flattener                                             *)
(***************************************************************************)
\* the step from process_bibliography's call to its return
BibliographyFlattened ==
    phase = "bibliography" /\ phase' = "write" /\ flatten_bibliography

\* the keys of the \bibitem entries of a text, in order
EmittedKeys(content) ==
    LET items == SelectSeq(content, LAMBDA t : t.k = "bibitem")
    IN  [n \in 1..Len(items) |-> items[n].a[2]]

\* the labels of the \bibitem entries of a text, in order
EmittedLabels(content) ==
    LET items == SelectSeq(content, LAMBDA t : t.k = "bibitem")
    IN  [n \in 1..Len(items) |-> items[n].a[1]]

\* the position of the first occurrence of key in cited (0 when it has none)
FirstCited(key, cited) ==
    IF \E i \in 1..Len(cited) : cited[i] = key
    THEN CHOOSE i \in 1..Len(cited) :
            cited[i] = key /\ \A j \in 1..(i - 1) : cited[j] # key
    ELSE 0

\* keys is a subsequence of the distinct keys of cited in first-appearance
\* order: no key twice, every key cited, first citations strictly increasing
InCitationOrder(keys, cited) ==
    /\ \A n \in 1..Len(keys) : FirstCited(keys[n], cited) # 0
    /\ \A m, n \in 1..Len(keys) :
          m < n => FirstCited(keys[m], cited) < FirstCited(keys[n], cited)

\* the compiled bibliography opens with \begin{thebibliography}{...}
HasHeader(bbl_content) ==
    \E i \in 1..Len(bbl_content) :
        bbl_content[i].k = "begin_thebibliography" /\ bbl_content[i].a # <<>>

C6_LabelsContiguous ==
    [][(/\ BibliographyFlattened /\ fix_reference_numbers
        /\ CiteKeys(main_content, 1) # <<>>
        /\ HasHeader(bbl)
        /\ FirstOfKind(main_content, "bibliography") # 0)
         => LET labels == EmittedLabels(main_content')
            IN  \A n \in 1..Len(labels) : labels[n] = <<ToString(n)>>]_vars

\* the first token of the line that is not a space is the comment marker
StartsWithComment(line) ==
    \E i \in 1..Len(line) :
        line[i].k = "%" /\ \A j \in 1..(i - 1) : line[j].k = "S"

\* the line holds a token that is not a space
HasText(line) == \E i \in 1..Len(line) : line[i].k # "S"

\* the line holds \input{...} or \include{...}
HasDirective(line) == \E i \in 1..Len(line) : line[i].k \in {"input", "include"}

\* f.tex relative to the directory of the including file
TargetOf(file_path, f) == JoinPath(Parent(file_path), f) \o DotTex

\* C7: a line that is neither blank nor a comment and holds \input{f} or
\* \include{f} with f.tex present next to the including file has process_file
\* called on f.tex, whose content then replaces the line under the line's
\* indentation.
C7_IncludeReplaced ==
    [][(/\ InLoop /\ HasText(Line) /\ ~StartsWithComment(Line)
        /\ HasDirective(Line)
        /\ Len(stack) < MaxDepth
        /\ TargetOf(Top.file_path, Line[input_match(Line)].a[1]) \in DOMAIN fs)
         => stack' = Append(stack,
                       Frame(TargetOf(Top.file_path, Line[input_match(Line)].a[1]),
                             IndentOf(Line)))]_vars

\* C8: a line of process_file whose first non-space character is % is
\* appended to the output as it is, in its place, and for it no file is
\* looked up, no call is made and nothing is printed, whether or not it
\* holds a directive and whether or not the named file exists.
C8_CommentLinePreserved ==
    [][(InLoop /\ StartsWithComment(Line))
         => /\ stack' = SetTop(Advance(Top, <<Line>>))
            /\ lookups' = lookups
            /\ printed' = printed]_vars

\* an indented comment line that holds a directive has just been appended,
\* with no file looked up and nothing printed so far
C8_CommentedDirectiveKept ==
    /\ phase = "process_file" /\ stack # <<>>
    /\ Top.i > 1 /\ Top.processed_lines # <<>>
    /\ LET line == Top.lines[Top.i - 1]
       IN  /\ StartsWithComment(line) /\ HasDirective(line)
           /\ line[1].k = "S"
           /\ Top.processed_lines[Len(Top.processed_lines)] = line
    /\ lookups = {}
    /\ printed = <<>>

NotFound(bib_name) ==
    strip(bib_name) \notin project_bibs /\ (strip(bib_name) \o DotBib) \notin project_bibs

\* C10: copy_bibliography prints a warning for every name of a
\* \bibliography{...} that is not found, goes on, and leaves that name in the
\* \bibliography reference of the text it returns, also when other names of
\* the reference were found and renamed.
C10_MissingNameKept ==
    [][(phase = "bibliography" /\ phase' = "write" /\ ~flatten_bibliography)
         => \A i \in 1..Len(main_content) :
              main_content[i].k = "bibliography" =>
                \A n \in 1..Len(main_content[i].a) :
                  NotFound(main_content[i].a[n]) =>
                    /\ \E p \in (Len(printed) + 1)..Len(printed') :
                          printed'[p] = Msg("Warning: Could not find bibliography file",
                                            strip(main_content[i].a[n]))
                    /\ \E j \in 1..Len(main_content') :
                          /\ main_content'[j].k = "bibliography"
                          /\ \E q \in 1..Len(main_content'[j].a) :
                                strip(main_content'[j].a[q]) = strip(main_content[i].a[n])]_vars

(***************************************************************************)
(* SpecBbl: one call of TexConcatenator.generate_bbl_content               *)
(***************************************************************************)
\* temp_dir / self.project_dir.name
temp_project == <<"tmp", "/", "project">>

\* the directories the process may be in when the function is called
WorkingDirectories == { <<"out">>, Parent(tex_file), <<"home", "/", "user">> }

\* line 129: re.search(r'\\begin{thebibliography}.*?\\end{thebibliography}',
\* bbl_content, re.DOTALL): group(0), or the empty text for None
bib_match(bbl_content) ==
    LET b == FirstOfKind(bbl_content, "begin_thebibliography")
        after == SubSeq(bbl_content, b + 1, Len(bbl_content))
        e == FirstOfKind(after, "end_thebibliography")
    IN  IF b = 0 \/ e = 0 THEN <<>> ELSE SubSeq(bbl_content, b, b + e)

\* what <stem>.bbl is after the four runs: absent, not readable, not UTF-8,
\* or a text with or without a complete thebibliography environment
BblFiles ==
    { [state |-> st, content |-> <<>>] : st \in {"absent", "unreadable", "undecodable"} }
    \cup { [state |-> "text", content |-> <<X, NL>> \o b \o <<NL, X>>] : b \in Bbls }
    \cup { [state |-> "text", content |-> <<BeginBib(<<<<"9">>>>), NL, X>>],
           [state |-> "text", content |-> <<EndBib, X, BeginBib(<<>>), EndBib, EndBib>>] }

\* the return or raise that is on its way out of the function
Pending(kind, value) == [kind |-> kind, value |-> value]
Running == Pending("running", <<>>)

InitBbl ==
    /\ CleanIdle
    /\ DiffIdle
    /\ FlatIdle
    /\ cwd \in WorkingDirectories
    /\ called_from = cwd
    /\ original_dir = <<>>
    /\ temp_dir = FALSE
    /\ bbl_file \in BblFiles
    /\ gen_pc = "call"
    /\ pending = Running
    /\ warned = <<>>

\* lines 105-106: tempfile.TemporaryDirectory() is entered
MakeTemporaryDirectory ==
    /\ gen_pc = "call"
    /\ temp_dir' = TRUE
    /\ gen_pc' = "copytree"
    /\ UNCHANGED <<cleanVars, diffVars, flatVars, cwd, called_from, original_dir,
                   bbl_file, pending, warned>>

\* line 109: shutil.copytree returns
CopyProject ==
    /\ gen_pc = "copytree"
    /\ gen_pc' = "chdir"
    /\ UNCHANGED <<cleanVars, diffVars, flatVars, cwd, called_from, original_dir,
                   temp_dir, bbl_file, pending, warned>>

\* line 109: shutil.copytree raises; the with statement is left
CopyProjectRaises ==
    /\ gen_pc = "copytree"
    /\ pending' = Pending("raise", <<>>)
    /\ gen_pc' = "exit"
    /\ UNCHANGED <<cleanVars, diffVars, flatVars, cwd, called_from, original_dir,
                   temp_dir, bbl_file, warned>>

\* lines 112-113: original_dir = os.getcwd(); os.chdir(temp_dir / name)
SwitchDirectory ==
    /\ gen_pc = "chdir"
    /\ original_dir' = cwd
    /\ cwd' = temp_project
    /\ gen_pc' = "system1"
    /\ UNCHANGED <<cleanVars, diffVars, flatVars, called_from, temp_dir, bbl_file,
                   pending, warned>>

\* the position after each of the four os.system calls of lines 118-121
AfterSystem ==
    [system1 |-> "system2", system2 |-> "system3", system3 |-> "system4",
     system4 |-> "read"]

\* lines 117-121: an os.system call returns; its status is not looked at
RunTool ==
    /\ gen_pc \in DOMAIN AfterSystem
    /\ gen_pc' = AfterSystem[gen_pc]
    /\ UNCHANGED <<cleanVars, diffVars, flatVars, cwd, called_from, original_dir,
                   temp_dir, bbl_file, pending, warned>>

\* lines 117-121: an os.system call raises; control goes to the finally clause
RunToolRaises ==
    /\ gen_pc \in DOMAIN AfterSystem
    /\ pending' = Pending("raise", <<>>)
    /\ gen_pc' = "finally"
    /\ UNCHANGED <<cleanVars, diffVars, flatVars, cwd, called_from, original_dir,
                   temp_dir, bbl_file, warned>>

\* lines 124-135: the .bbl is looked for and read
ReadBbl ==
    /\ gen_pc = "read"
    /\ pending' =
         IF bbl_file.state = "absent" THEN Pending("fall", <<>>)
         ELSE IF bbl_file.state = "unreadable" THEN Pending("raise", <<>>)
         ELSE IF bbl_file.state = "undecodable" THEN Pending("return", <<>>)
         ELSE IF bib_match(bbl_file.content) # <<>>
              THEN Pending("return", bib_match(bbl_file.content))
              ELSE Pending("fall", <<>>)
    /\ warned' = IF bbl_file.state = "undecodable"
                 THEN Append(warned, "Warning: BBL file encoding issue")
                 ELSE warned
    /\ gen_pc' = "finally"
    /\ UNCHANGED <<cleanVars, diffVars, flatVars, cwd, called_from, original_dir,
                   temp_dir, bbl_file>>

\* a build whose finally clause does not change the directory
RestoreDirectorySkipped ==
    /\ gen_pc = "finally"
    /\ gen_pc' = "exit"
    /\ UNCHANGED <<cleanVars, diffVars, flatVars, cwd, called_from, original_dir,
                   temp_dir, bbl_file, pending, warned>>

\* lines 136-137: finally: os.chdir(original_dir)
RestoreDirectory ==
    /\ gen_pc = "finally"
    /\ cwd' = original_dir
    /\ gen_pc' = "exit"
    /\ UNCHANGED <<cleanVars, diffVars, flatVars, called_from, original_dir,
                   temp_dir, bbl_file, pending, warned>>

\* line 105: the with statement is left and the temporary directory is
\* removed; line 139 returns "" when nothing is on its way out
RemoveTemporaryDirectory ==
    /\ gen_pc = "exit"
    /\ temp_dir' = FALSE
    /\ pending' = IF pending.kind = "fall" THEN Pending("return", <<>>) ELSE pending
    /\ gen_pc' = "done"
    /\ UNCHANGED <<cleanVars, diffVars, flatVars, cwd, called_from, original_dir,
                   bbl_file, warned>>

NextBbl ==
    \/ MakeTemporaryDirectory
    \/ CopyProject
    \/ CopyProjectRaises
    \/ SwitchDirectory
    \/ RunTool
    \/ RunToolRaises
    \/ ReadBbl
    \/ RestoreDirectory
    \/ RemoveTemporaryDirectory

SpecBbl == InitBbl /\ [][NextBbl]_vars

\* C11: on every way out of generate_bbl_content after the working directory
\* was switched to the temporary copy (a bibliography returned, the empty
\* result, the decode failure, an error raised by a tool run or by reading
\* the .bbl), the working directory is the one of the call again, and it is
\* so before the temporary directory is removed.
C11_WorkingDirectoryRestored ==
    /\ []((gen_pc = "done" /\ original_dir # <<>>) => cwd = called_from)
    /\ [][(original_dir # <<>> /\ temp_dir /\ ~temp_dir')
            => (cwd = called_from /\ cwd' = called_from)]_vars

\* the function was left by an error after the directory had been switched
C11_RaisedAfterSwitch ==
    /\ gen_pc = "done"
    /\ original_dir = called_from
    /\ pending.kind = "raise"
    /\ ~temp_dir

====
